---- MODULE Spec2Model ----
(***************************************************************************)
(* Model of the aggregation layer of the GPU pricing dashboard             *)
(* (src/gpu_data.py): the module-level reference tables and the functions  *)
(* that derive provider rankings, the price-comparison matrix and the      *)
(* market summary from them.                                               *)
(*                                                                         *)
(* Numbers.  The source computes in binary floating point.  The model      *)
(* computes the same expressions exactly, in fixed point:                  *)
(*   - an hourly or monthly price is a whole number of cents;              *)
(*   - a discount is a whole number of percent (0.30 is 30);               *)
(*   - a reserved price, price * (1 - discount), is in hundredths of a     *)
(*     cent, cents * (100 - percent);                                      *)
(*   - a value the source rounds to one decimal is a whole number of       *)
(*     tenths (500.0 is 5000), rounded half to even as round() does.       *)
(* A float tie that the binary representation breaks the other way is      *)
(* outside the model.                                                      *)
(***************************************************************************)
EXTENDS Integers, Sequences, FiniteSets, TLC

VARIABLES
    CLOUD_PRICING,       \* provider -> [gpus, reserved_1yr_discount, reserved_3yr_discount]
    HISTORICAL_PRICING,  \* gpu id -> the periods of its series, in storage order
    UTILIZATION_METRICS, \* provider -> gpu id -> [avg_utilization_pct, efficiency_score]
    SUSTAINABILITY_INDEX, \* provider -> its regions with their scores, in storage order
    cache_file,          \* content of CACHE_FILE: section -> text and "timestamp"; <<>> when absent
    news_cache_file,     \* content of NEWS_CACHE_FILE: [date, news]; <<>> when absent
    NEWS_FEED,           \* the static news list
    proc,                \* process -> the analyzer call it is making or made last
    now,                 \* the wall clock time.time() and datetime.now() read, in seconds
    call,                \* the aggregation call made last: [fn, arg, again]
    result               \* what that call returned or raised

vars ==
    <<CLOUD_PRICING, HISTORICAL_PRICING, UTILIZATION_METRICS, SUSTAINABILITY_INDEX,
      cache_file, news_cache_file, NEWS_FEED, proc, now, call, result>>

\* the state of the analyzer: its two cache files, the news list and its callers
analyzer == <<cache_file, news_cache_file, NEWS_FEED, proc>>

tables == <<CLOUD_PRICING, HISTORICAL_PRICING, UTILIZATION_METRICS, SUSTAINABILITY_INDEX>>

(***************************************************************************)
(* Bounds of the model.                                                    *)
(***************************************************************************)
\* the most periods a GPU's historical series holds
MaxPeriods == 2

\* the clock runs from 0 to MaxTime
MaxTime == 1

\* the most regions a provider has in the sustainability table
MaxRegions == 3

\* the analyzer's clock runs for MaxHalfHours steps of half an hour
MaxHalfHours == 3

\* the news desk's clock runs for MaxDays days
MaxDays == 3

(***************************************************************************)
(* The reference tables.  A dict is a function together with the order its *)
(* keys were inserted in, which is the order a for loop visits them.       *)
(***************************************************************************)
\* iteration order of CLOUD_PRICING
ProviderOrder == <<"A", "B">>

\* iteration order of GPU_SPECS
GpuOrder == <<"X", "Y">>

ProviderSet == {ProviderOrder[i] : i \in DOMAIN ProviderOrder}

GpuSet == {GpuOrder[i] : i \in DOMAIN GpuOrder}

\* the ids a caller passes: the GPUs of the spec table and an unknown one
GpuIdArgs == GpuSet \cup {"Z"}

GPU_SPECS ==
    [g \in GpuSet |->
        IF g = "X"
        THEN [name |-> "GPU X", vram_gb |-> 24, fp16_tflops |-> 1000]
        ELSE [name |-> "GPU Y", vram_gb |-> 80, fp16_tflops |-> 312]]

\* hourly prices, in cents
Prices == {0, 150, 200}

\* <<reserved_1yr_discount, reserved_3yr_discount>>, in percent
DiscountPairs == {<<30, 50>>, <<0, 0>>}

\* period keys "2025-12", "2026-01", "2026-02" as their digit characters
PeriodKeys == {<<2, 0, 2, 5, 1, 2>>, <<2, 0, 2, 6, 0, 1>>, <<2, 0, 2, 6, 0, 2>>}

\* average prices of a period, in cents
Avgs == {0, 180, 200}

\* a dict gpu id -> price entry, for the GPUs a provider lists
GpuOffers == UNION {[S -> [price_per_gpu_hr : Prices]] : S \in SUBSET GpuSet}

ProviderData ==
    {[gpus |-> o, reserved_1yr_discount |-> d[1], reserved_3yr_discount |-> d[2]] :
        o \in GpuOffers, d \in DiscountPairs}

PricingTables == [ProviderSet -> ProviderData]

HistoryEntries == [period : PeriodKeys, avg : Avgs]

\* a series of at most n periods with distinct keys, in any storage order
Histories(n) ==
    UNION {{h \in [1..k -> HistoryEntries] :
                \A i, j \in 1..k : i # j => h[i].period # h[j].period} : k \in 0..n}

\* the series of the scenario "avg 2.00 then avg 1.80"
ScenarioHistory ==
    <<[period |-> <<2, 0, 2, 6, 0, 1>>, avg |-> 200],
      [period |-> <<2, 0, 2, 6, 0, 2>>, avg |-> 180]>>

\* snapshots of the historical table in which one GPU has the scenario's
\* series and the others have no period
BaseHistoryTables ==
    {[g \in GpuSet |-> IF g = v THEN ScenarioHistory ELSE <<>>] : v \in GpuSet}

\* the series "avg 1.80 then avg 2.00", a rise
RisingHistory ==
    <<[period |-> <<2, 0, 2, 6, 0, 1>>, avg |-> 180],
      [period |-> <<2, 0, 2, 6, 0, 2>>, avg |-> 200]>>

\* the snapshot of the historical table in which the price of every GPU rose
RisingHistoryTables == {[g \in GpuSet |-> RisingHistory]}

\* snapshots that differ from a base one in the series of one GPU, which is
\* any series or missing from the table
VariedHistoryTables ==
    {[b EXCEPT ![v] = h] : b \in BaseHistoryTables, v \in GpuSet, h \in Histories(MaxPeriods)}
    \cup {[g \in GpuSet \ {v} |-> b[g]] : b \in BaseHistoryTables, v \in GpuSet}

\* snapshots of the pricing table in which every provider lists every GPU,
\* all providers at the same non-zero price and no two GPUs at the same, with
\* discounts 0.30 / 0.50
BasePricingTables ==
    {[p \in ProviderSet |->
        [gpus |-> [g \in GpuSet |-> [price_per_gpu_hr |-> pr[g]]],
         reserved_1yr_discount |-> 30, reserved_3yr_discount |-> 50]] :
        pr \in {f \in [GpuSet -> Prices \ {0}] : \A g, h \in GpuSet : g # h => f[g] # f[h]}}

\* iteration order of UTILIZATION_METRICS
UtilizationProviderOrder == <<"A", "B", "C">>

UtilizationProviderSet ==
    {UtilizationProviderOrder[i] : i \in DOMAIN UtilizationProviderOrder}

\* the metrics of one GPU at one provider, in whole percent and points
Metrics ==
    {[avg_utilization_pct |-> 78, efficiency_score |-> 82],
     [avg_utilization_pct |-> 55, efficiency_score |-> 59],
     [avg_utilization_pct |-> 58, efficiency_score |-> 63]}

\* snapshots of the utilization table: each provider reports some of the GPUs
UtilizationTables ==
    [UtilizationProviderSet -> UNION {[S -> Metrics] : S \in SUBSET GpuSet}]

\* the snapshot in which every provider reports every GPU with the same metrics
BaseUtilization ==
    [p \in UtilizationProviderSet |->
        [g \in GpuSet |-> [avg_utilization_pct |-> 78, efficiency_score |-> 82]]]

\* iteration order of SUSTAINABILITY_INDEX
SustainabilityProviderOrder == <<"A", "B">>

SustainabilityProviderSet ==
    {SustainabilityProviderOrder[i] : i \in DOMAIN SustainabilityProviderOrder}

\* sustainability scores of a region
Scores == {60, 85}

\* a provider's region dict: at least one region, the regions 1, 2, ... under
\* distinct names, in any storage order
RegionTables ==
    UNION {{r \in [1..k -> [region : 1..MaxRegions, sustainability_score : Scores]] :
                \A i, j \in 1..k : i # j => r[i].region # r[j].region} : k \in 1..MaxRegions}

\* the region dict "region 1 scores 60, region 2 scores 85"
BaseRegions ==
    <<[region |-> 1, sustainability_score |-> 60],
      [region |-> 2, sustainability_score |-> 85]>>

BaseSustainability == [p \in SustainabilityProviderSet |-> BaseRegions]

\* snapshots of the sustainability table that differ from the base one in
\* the regions of one provider
SustainabilityTables ==
    {[BaseSustainability EXCEPT ![v] = r] : v \in SustainabilityProviderSet, r \in RegionTables}

\* the workload table: each workload recommends GPUs, in order of preference,
\* among them one that the spec table does not know and nobody offers
WORKLOAD_RECOMMENDATIONS ==
    [w \in {"training", "inference", "research"} |->
        IF w = "training" THEN [recommended |-> <<"X", "Y">>, min_gpus |-> 8]
        ELSE IF w = "inference" THEN [recommended |-> <<"Y", "Z">>, min_gpus |-> 1]
        ELSE [recommended |-> <<"Z">>, min_gpus |-> 1]]

\* the static news list: newest first, two items of one day, the oldest in
\* the month before; a date "YYYY-MM-DD" is <<year, month, day>>
BaseNewsFeed ==
    <<[date |-> <<2026, 2, 17>>, headline |-> "earnings"],
      [date |-> <<2026, 2, 14>>, headline |-> "stock"],
      [date |-> <<2026, 2, 14>>, headline |-> "demand"],
      [date |-> <<2026, 1, 26>>, headline |-> "expansion"]>>

(***************************************************************************)
(* What a call gives back.                                                 *)
(***************************************************************************)
Return(v) == [kind |-> "return", value |-> v]

Raise(e) == [kind |-> "raise", exc |-> e]

NoCall == [fn |-> "none", arg |-> "none", again |-> FALSE]

\* the call record of fn(arg); again says the call before it was the same
Called(fn, arg, before) ==
    [fn |-> fn, arg |-> arg, again |-> (before.fn = fn /\ before.arg = arg)]

(***************************************************************************)
(* list.sort / sorted: a stable insertion sort of s by the integer keys    *)
(* keys[i] of its elements, ascending; elements with equal keys keep their *)
(* order.                                                                  *)
(***************************************************************************)
\* as InsertIndex, but i goes in front of the indices with an equal key
RECURSIVE InsertIndex_BeforeEqual(_, _, _)
InsertIndex_BeforeEqual(order, i, keys) ==
    IF order = <<>> THEN <<i>>
    ELSE IF keys[i] <= keys[Head(order)] THEN <<i>> \o order
    ELSE <<Head(order)>> \o InsertIndex_BeforeEqual(Tail(order), i, keys)

\* order lists indices by ascending key; i, which comes after them in s,
\* goes behind every index whose key is not greater
RECURSIVE InsertIndex(_, _, _)
InsertIndex(order, i, keys) ==
    IF order = <<>> THEN <<i>>
    ELSE IF keys[i] < keys[Head(order)] THEN <<i>> \o order
    ELSE <<Head(order)>> \o InsertIndex(Tail(order), i, keys)

RECURSIVE SortedOrder(_, _)
SortedOrder(keys, n) ==
    IF n = 0 THEN <<>>
    ELSE InsertIndex(SortedOrder(keys, n - 1), n, keys)

RECURSIVE Pick(_, _)
Pick(s, order) ==
    IF order = <<>> THEN <<>>
    ELSE <<s[Head(order)]>> \o Pick(s, Tail(order))

StableSort(s, keys) == Pick(s, SortedOrder(keys, Len(s)))

(***************************************************************************)
(* get_cheapest_by_gpu                                                     *)
(***************************************************************************)
\* as Offering, but the two discounts are taken for each other
Offering_SwappedDiscounts(provider, gpu_id) ==
    LET data == CLOUD_PRICING[provider]
        gpu == data.gpus[gpu_id]
    IN  [provider |-> provider,
         price_per_gpu_hr |-> gpu.price_per_gpu_hr,
         price_monthly |-> gpu.price_per_gpu_hr * 730,
         reserved_1yr |-> gpu.price_per_gpu_hr * (100 - data.reserved_3yr_discount),
         reserved_3yr |-> gpu.price_per_gpu_hr * (100 - data.reserved_1yr_discount)]

\* as Offering, but a discount is added to the price instead of taken off
Offering_AddsDiscount(provider, gpu_id) ==
    LET data == CLOUD_PRICING[provider]
        gpu == data.gpus[gpu_id]
    IN  [provider |-> provider,
         price_per_gpu_hr |-> gpu.price_per_gpu_hr,
         price_monthly |-> gpu.price_per_gpu_hr * 730,
         reserved_1yr |-> gpu.price_per_gpu_hr * (100 + data.reserved_1yr_discount),
         reserved_3yr |-> gpu.price_per_gpu_hr * (100 + data.reserved_3yr_discount)]

\* the dict appended for one provider that lists gpu_id
Offering(provider, gpu_id) ==
    LET data == CLOUD_PRICING[provider]
        gpu == data.gpus[gpu_id]
    IN  [provider |-> provider,
         price_per_gpu_hr |-> gpu.price_per_gpu_hr,
         price_monthly |-> gpu.price_per_gpu_hr * 730,
         reserved_1yr |-> gpu.price_per_gpu_hr * (100 - data.reserved_1yr_discount),
         reserved_3yr |-> gpu.price_per_gpu_hr * (100 - data.reserved_3yr_discount)]

\* as SortByPrice, but the list is left in table order
SortByPrice_Unsorted(results) == results

\* results.sort(key=lambda x: x["price_per_gpu_hr"])
SortByPrice(results) ==
    StableSort(results, [i \in DOMAIN results |-> results[i].price_per_gpu_hr])

\* the for loop over CLOUD_PRICING.items(): the providers that list gpu_id,
\* in table order
RECURSIVE OfferingsLoop(_, _)
OfferingsLoop(providers, gpu_id) ==
    IF providers = <<>> THEN <<>>
    ELSE IF gpu_id \in DOMAIN CLOUD_PRICING[Head(providers)].gpus
         THEN <<Offering(Head(providers), gpu_id)>> \o OfferingsLoop(Tail(providers), gpu_id)
         ELSE OfferingsLoop(Tail(providers), gpu_id)

get_cheapest_by_gpu(gpu_id) ==
    SortByPrice(OfferingsLoop(ProviderOrder, gpu_id))

(***************************************************************************)
(* get_price_trends                                                        *)
(***************************************************************************)
get_price_trends(gpu_id) ==
    IF gpu_id \in DOMAIN HISTORICAL_PRICING
    THEN HISTORICAL_PRICING[gpu_id]
    ELSE <<>>

(***************************************************************************)
(* round(): the integer nearest to a / d for d > 0, a tie going to the     *)
(* even neighbour.                                                         *)
(***************************************************************************)
RoundDiv(a, d) ==
    LET f == a \div d
        r == a % d
    IN  IF 2 * r < d THEN f
        ELSE IF 2 * r > d THEN f + 1
        ELSE IF f % 2 = 0 THEN f ELSE f + 1

\* as SumPrices, but only the first offering is counted
SumPrices_FirstOnly(providers) ==
    IF providers = <<>> THEN 0
    ELSE Head(providers).price_per_gpu_hr

RECURSIVE SumPrices(_)
SumPrices(providers) ==
    IF providers = <<>> THEN 0
    ELSE Head(providers).price_per_gpu_hr + SumPrices(Tail(providers))

(***************************************************************************)
(* get_price_comparison_matrix                                             *)
(***************************************************************************)
\* a < b for two strings, as Python compares them: character by character
StrLess(a, b) ==
    \/ \E i \in (DOMAIN a) \cap (DOMAIN b) :
            /\ \A j \in 1..(i - 1) : a[j] = b[j]
            /\ a[i] < b[i]
    \/ /\ Len(a) < Len(b)
       /\ \A j \in DOMAIN a : a[j] = b[j]

\* as SortedPeriods, but the keys are taken in the order they are stored
SortedPeriods_StorageOrder(trends) == trends

\* sorted(trends.keys()): the entries of a series in the order of their
\* keys; a key's sort key is the number of keys that compare less than it
SortedPeriods(trends) ==
    StableSort(trends,
        [i \in DOMAIN trends |->
            Cardinality({j \in DOMAIN trends : StrLess(trends[j].period, trends[i].period)})])

\* the division (latest - prev) / prev of the trend block faults
TrendFaults(gpu_id) ==
    LET trend_periods == SortedPeriods(get_price_trends(gpu_id))
    IN  /\ Len(trend_periods) >= 2
        /\ trend_periods[Len(trend_periods) - 1].avg = 0

\* price_change_pct rounded to one decimal, in tenths of a percent
MonthlyChangePct(gpu_id) ==
    LET trend_periods == SortedPeriods(get_price_trends(gpu_id))
        n == Len(trend_periods)
    IN  IF n >= 2
        THEN LET latest == trend_periods[n].avg
                 prev == trend_periods[n - 1].avg
             IN  RoundDiv((latest - prev) * 1000, prev)
        ELSE 0

\* as ComparisonRow, but the ratios divide by the average price
ComparisonRow_DividesByAverage(gpu_id, providers) ==
    LET spec == GPU_SPECS[gpu_id]
        cheapest == providers[1].price_per_gpu_hr
        most_expensive == providers[Len(providers)].price_per_gpu_hr
        avg_price == RoundDiv(SumPrices(providers), Len(providers))
    IN  [gpu_id |-> gpu_id,
         name |-> spec.name,
         vram_gb |-> spec.vram_gb,
         cheapest_price |-> cheapest,
         cheapest_provider |-> providers[1].provider,
         most_expensive |-> most_expensive,
         avg_price |-> avg_price,
         num_providers |-> Len(providers),
         price_spread_pct |->
             IF cheapest > 0
             THEN RoundDiv((most_expensive - cheapest) * 1000, cheapest) ELSE 0,
         monthly_change_pct |-> MonthlyChangePct(gpu_id),
         flops_per_dollar |->
             IF avg_price > 0 THEN RoundDiv(spec.fp16_tflops * 1000, avg_price) ELSE 0,
         vram_per_dollar |->
             IF avg_price > 0 THEN RoundDiv(spec.vram_gb * 1000, avg_price) ELSE 0]

\* the dict appended for one GPU with a non-empty provider list
ComparisonRow(gpu_id, providers) ==
    LET spec == GPU_SPECS[gpu_id]
        cheapest == providers[1].price_per_gpu_hr
        most_expensive == providers[Len(providers)].price_per_gpu_hr
    IN  [gpu_id |-> gpu_id,
         name |-> spec.name,
         vram_gb |-> spec.vram_gb,
         cheapest_price |-> cheapest,
         cheapest_provider |-> providers[1].provider,
         most_expensive |-> most_expensive,
         avg_price |-> RoundDiv(SumPrices(providers), Len(providers)),
         num_providers |-> Len(providers),
         price_spread_pct |->
             IF cheapest > 0
             THEN RoundDiv((most_expensive - cheapest) * 1000, cheapest) ELSE 0,
         monthly_change_pct |-> MonthlyChangePct(gpu_id),
         flops_per_dollar |->
             IF cheapest > 0 THEN RoundDiv(spec.fp16_tflops * 1000, cheapest) ELSE 0,
         vram_per_dollar |->
             IF cheapest > 0 THEN RoundDiv(spec.vram_gb * 1000, cheapest) ELSE 0]

\* as MatrixLoop, but a GPU with fewer than two periods is skipped
RECURSIVE MatrixLoop_SkipsSparse(_, _)
MatrixLoop_SkipsSparse(gpus, rows) ==
    IF gpus = <<>> THEN Return(rows)
    ELSE LET gpu_id == Head(gpus)
             providers == get_cheapest_by_gpu(gpu_id)
         IN  IF providers = <<>> \/ Len(get_price_trends(gpu_id)) < 2
             THEN MatrixLoop_SkipsSparse(Tail(gpus), rows)
             ELSE IF TrendFaults(gpu_id) THEN Raise("ZeroDivisionError")
             ELSE MatrixLoop_SkipsSparse(Tail(gpus),
                      Append(rows, ComparisonRow(gpu_id, providers)))

\* as MatrixLoop, but the loop ends at the first GPU without offerings
RECURSIVE MatrixLoop_Break(_, _)
MatrixLoop_Break(gpus, rows) ==
    IF gpus = <<>> THEN Return(rows)
    ELSE LET gpu_id == Head(gpus)
             providers == get_cheapest_by_gpu(gpu_id)
         IN  IF providers = <<>> THEN Return(rows)
             ELSE IF TrendFaults(gpu_id) THEN Raise("ZeroDivisionError")
             ELSE MatrixLoop_Break(Tail(gpus), Append(rows, ComparisonRow(gpu_id, providers)))

\* as MatrixLoop, but a GPU without offerings gets a row of zeros instead of
\* being skipped
RECURSIVE MatrixLoop_KeepsUnoffered(_, _)
MatrixLoop_KeepsUnoffered(gpus, rows) ==
    IF gpus = <<>> THEN Return(rows)
    ELSE LET gpu_id == Head(gpus)
             providers == get_cheapest_by_gpu(gpu_id)
         IN  IF TrendFaults(gpu_id) THEN Raise("ZeroDivisionError")
             ELSE IF providers = <<>>
             THEN MatrixLoop_KeepsUnoffered(Tail(gpus),
                      Append(rows,
                          [gpu_id |-> gpu_id,
                           name |-> GPU_SPECS[gpu_id].name,
                           vram_gb |-> GPU_SPECS[gpu_id].vram_gb,
                           cheapest_price |-> 0,
                           cheapest_provider |-> "none",
                           most_expensive |-> 0,
                           avg_price |-> 0,
                           num_providers |-> 0,
                           price_spread_pct |-> 0,
                           monthly_change_pct |-> MonthlyChangePct(gpu_id),
                           flops_per_dollar |-> 0,
                           vram_per_dollar |-> 0]))
             ELSE MatrixLoop_KeepsUnoffered(Tail(gpus),
                      Append(rows, ComparisonRow(gpu_id, providers)))

\* the for loop over GPU_SPECS: the rows in table order, or the fault of
\* the first GPU whose trend block divides by zero
RECURSIVE MatrixLoop(_, _)
MatrixLoop(gpus, rows) ==
    IF gpus = <<>> THEN Return(rows)
    ELSE LET gpu_id == Head(gpus)
             providers == get_cheapest_by_gpu(gpu_id)
         IN  IF providers = <<>> THEN MatrixLoop(Tail(gpus), rows)
             ELSE IF TrendFaults(gpu_id) THEN Raise("ZeroDivisionError")
             ELSE MatrixLoop(Tail(gpus), Append(rows, ComparisonRow(gpu_id, providers)))

\* as SortByCheapestDesc, but without reverse=True
SortByCheapestDesc_Ascending(rows) ==
    StableSort(rows, [i \in DOMAIN rows |-> rows[i].cheapest_price])

\* rows.sort(key=lambda x: x["cheapest_price"], reverse=True): descending,
\* rows with equal keys in their original order
SortByCheapestDesc(rows) ==
    StableSort(rows, [i \in DOMAIN rows |-> 0 - rows[i].cheapest_price])

get_price_comparison_matrix ==
    LET loop == MatrixLoop(GpuOrder, <<>>)
    IN  IF loop.kind = "raise" THEN loop
        ELSE Return(SortByCheapestDesc(loop.value))

(***************************************************************************)
(* generate_market_summary                                                 *)
(***************************************************************************)
\* as MaxIndex, but of the least key
MaxIndex_Min(keys) ==
    CHOOSE i \in DOMAIN keys :
        /\ \A j \in DOMAIN keys : keys[j] >= keys[i]
        /\ \A j \in 1..(i - 1) : keys[j] > keys[i]

\* max(rows, key=...): the first row whose key no row exceeds
MaxIndex(keys) ==
    CHOOSE i \in DOMAIN keys :
        /\ \A j \in DOMAIN keys : keys[j] <= keys[i]
        /\ \A j \in 1..(i - 1) : keys[j] < keys[i]

\* as MinIndex, but of several least keys the last one is taken
MinIndex_Last(keys) ==
    CHOOSE i \in DOMAIN keys :
        /\ \A j \in DOMAIN keys : keys[j] >= keys[i]
        /\ \A j \in (i + 1)..Len(keys) : keys[j] > keys[i]

\* min(rows, key=...): the first row whose key no row is below
MinIndex(keys) ==
    CHOOSE i \in DOMAIN keys :
        /\ \A j \in DOMAIN keys : keys[j] >= keys[i]
        /\ \A j \in 1..(i - 1) : keys[j] > keys[i]

\* as generate_market_summary, but every row of the embedded matrix is
\* stamped with the time of the call as well
generate_market_summary_StampsRows(clock) ==
    LET matrix == get_price_comparison_matrix
    IN  IF matrix.kind = "raise" THEN matrix
        ELSE IF matrix.value = <<>> THEN Raise("ValueError")
        ELSE
          LET comparison == matrix.value
              best_flops_per_dollar ==
                  comparison[MaxIndex([i \in DOMAIN comparison |-> comparison[i].flops_per_dollar])]
              best_vram_per_dollar ==
                  comparison[MaxIndex([i \in DOMAIN comparison |-> comparison[i].vram_per_dollar])]
              biggest_price_drop ==
                  comparison[MinIndex([i \in DOMAIN comparison |-> comparison[i].monthly_change_pct])]
              most_competitive ==
                  comparison[MaxIndex([i \in DOMAIN comparison |-> comparison[i].num_providers])]
          IN  Return(
                [timestamp |-> clock,
                 total_gpus_tracked |-> Len(GpuOrder),
                 total_providers_tracked |-> Len(ProviderOrder),
                 best_flops_per_dollar |->
                     [gpu |-> best_flops_per_dollar.name,
                      value |-> best_flops_per_dollar.flops_per_dollar,
                      at_price |-> best_flops_per_dollar.cheapest_price,
                      provider |-> best_flops_per_dollar.cheapest_provider],
                 best_vram_per_dollar |->
                     [gpu |-> best_vram_per_dollar.name,
                      value |-> best_vram_per_dollar.vram_per_dollar,
                      at_price |-> best_vram_per_dollar.cheapest_price,
                      provider |-> best_vram_per_dollar.cheapest_provider],
                 biggest_price_drop |->
                     [gpu |-> biggest_price_drop.name,
                      change_pct |-> biggest_price_drop.monthly_change_pct],
                 most_competitive_market |->
                     [gpu |-> most_competitive.name,
                      num_providers |-> most_competitive.num_providers,
                      price_spread_pct |-> most_competitive.price_spread_pct],
                 comparison_matrix |->
                     [i \in DOMAIN comparison |->
                         [f \in DOMAIN comparison[i] \cup {"updated"} |->
                             IF f = "updated" THEN clock ELSE comparison[i][f]]]])

generate_market_summary(clock) ==
    LET matrix == get_price_comparison_matrix
    IN  IF matrix.kind = "raise" THEN matrix
        ELSE IF matrix.value = <<>> THEN Raise("ValueError")
        ELSE
          LET comparison == matrix.value
              best_flops_per_dollar ==
                  comparison[MaxIndex([i \in DOMAIN comparison |-> comparison[i].flops_per_dollar])]
              best_vram_per_dollar ==
                  comparison[MaxIndex([i \in DOMAIN comparison |-> comparison[i].vram_per_dollar])]
              biggest_price_drop ==
                  comparison[MinIndex([i \in DOMAIN comparison |-> comparison[i].monthly_change_pct])]
              most_competitive ==
                  comparison[MaxIndex([i \in DOMAIN comparison |-> comparison[i].num_providers])]
          IN  Return(
                [timestamp |-> clock,
                 total_gpus_tracked |-> Len(GpuOrder),
                 total_providers_tracked |-> Len(ProviderOrder),
                 best_flops_per_dollar |->
                     [gpu |-> best_flops_per_dollar.name,
                      value |-> best_flops_per_dollar.flops_per_dollar,
                      at_price |-> best_flops_per_dollar.cheapest_price,
                      provider |-> best_flops_per_dollar.cheapest_provider],
                 best_vram_per_dollar |->
                     [gpu |-> best_vram_per_dollar.name,
                      value |-> best_vram_per_dollar.vram_per_dollar,
                      at_price |-> best_vram_per_dollar.cheapest_price,
                      provider |-> best_vram_per_dollar.cheapest_provider],
                 biggest_price_drop |->
                     [gpu |-> biggest_price_drop.name,
                      change_pct |-> biggest_price_drop.monthly_change_pct],
                 most_competitive_market |->
                     [gpu |-> most_competitive.name,
                      num_providers |-> most_competitive.num_providers,
                      price_spread_pct |-> most_competitive.price_spread_pct],
                 comparison_matrix |-> comparison])

(***************************************************************************)
(* get_utilization_summary                                                 *)
(***************************************************************************)
\* the body of the inner loop for every GPU of one provider: the entry of
\* the GPU is created on first sight, takes the provider's metrics under the
\* provider's name and adds them to its running sums and count
AccumulateProvider(gpu_summary, provider) ==
    LET gpus == UTILIZATION_METRICS[provider]
    IN  [gpu_id \in (DOMAIN gpu_summary) \cup (DOMAIN gpus) |->
            IF gpu_id \in DOMAIN gpus
            THEN LET metrics == gpus[gpu_id]
                     entry == IF gpu_id \in DOMAIN gpu_summary
                              THEN gpu_summary[gpu_id]
                              ELSE [providers |-> <<>>, avg_utilization |-> 0,
                                    avg_efficiency |-> 0, count |-> 0]
                 IN  [providers |-> (provider :> metrics) @@ entry.providers,
                      avg_utilization |-> entry.avg_utilization + metrics.avg_utilization_pct,
                      avg_efficiency |-> entry.avg_efficiency + metrics.efficiency_score,
                      count |-> entry.count + 1]
            ELSE gpu_summary[gpu_id]]

\* the outer loop over UTILIZATION_METRICS.items()
RECURSIVE UtilizationLoop(_, _)
UtilizationLoop(providers, gpu_summary) ==
    IF providers = <<>> THEN gpu_summary
    ELSE UtilizationLoop(Tail(providers), AccumulateProvider(gpu_summary, Head(providers)))

\* as get_utilization_summary, but the means are cut off after one decimal
get_utilization_summary_Truncates ==
    LET gpu_summary == UtilizationLoop(UtilizationProviderOrder, <<>>)
    IN  [gpu_id \in DOMAIN gpu_summary |->
            LET n == gpu_summary[gpu_id].count
            IN  [gpu_summary[gpu_id] EXCEPT
                    !.avg_utilization = (@ * 10) \div n,
                    !.avg_efficiency = (@ * 10) \div n]]

\* the second loop: the sums become means rounded to one decimal, in tenths
get_utilization_summary ==
    LET gpu_summary == UtilizationLoop(UtilizationProviderOrder, <<>>)
    IN  [gpu_id \in DOMAIN gpu_summary |->
            LET n == gpu_summary[gpu_id].count
            IN  [gpu_summary[gpu_id] EXCEPT
                    !.avg_utilization = RoundDiv(@ * 10, n),
                    !.avg_efficiency = RoundDiv(@ * 10, n)]]

(***************************************************************************)
(* get_sustainability_summary.  Of a region's fields the model keeps the   *)
(* sustainability_score, and of the result the per-provider regions,       *)
(* avg_sustainability_score, best_region and worst_region.                 *)
(***************************************************************************)
RECURSIVE SumScores(_)
SumScores(regions) ==
    IF regions = <<>> THEN 0
    ELSE Head(regions).sustainability_score + SumScores(Tail(regions))

\* the entry built for one provider from its region dict
ProviderSustainability(regions) ==
    LET scores == [i \in DOMAIN regions |-> regions[i].sustainability_score]
    IN  [regions |-> regions,
         avg_sustainability_score |-> RoundDiv(SumScores(regions) * 10, Len(regions)),
         best_region |-> regions[MaxIndex(scores)].region,
         worst_region |-> regions[MinIndex(scores)].region]

get_sustainability_summary ==
    [providers |->
        [provider \in SustainabilityProviderSet |->
            ProviderSustainability(SUSTAINABILITY_INDEX[provider])]]

(***************************************************************************)
(* get_workload_recommendations                                            *)
(***************************************************************************)
\* as CurrentPrice, but of the last offering of the list
CurrentPrice_LastOffering(prices) ==
    [cheapest |-> prices[Len(prices)].price_per_gpu_hr,
     provider |-> prices[Len(prices)].provider,
     monthly_1gpu |-> RoundDiv(prices[Len(prices)].price_per_gpu_hr * 730, 1)]

\* the entry stored for a GPU with the non-empty offering list prices;
\* monthly_1gpu is rounded to two decimals, that is to whole cents
CurrentPrice(prices) ==
    [cheapest |-> prices[1].price_per_gpu_hr,
     provider |-> prices[1].provider,
     monthly_1gpu |-> RoundDiv(prices[1].price_per_gpu_hr * 730, 1)]

\* the inner loop over rec["recommended"]
RECURSIVE GpuPricesLoop(_, _)
GpuPricesLoop(recommended, gpu_prices) ==
    IF recommended = <<>> THEN gpu_prices
    ELSE LET gpu_id == Head(recommended)
             prices == get_cheapest_by_gpu(gpu_id)
         IN  IF prices # <<>>
             THEN GpuPricesLoop(Tail(recommended),
                      (gpu_id :> CurrentPrice(prices)) @@ gpu_prices)
             ELSE GpuPricesLoop(Tail(recommended), gpu_prices)

\* {**rec, "current_prices": gpu_prices} for every workload
get_workload_recommendations ==
    [workload \in DOMAIN WORKLOAD_RECOMMENDATIONS |->
        LET rec == WORKLOAD_RECOMMENDATIONS[workload]
        IN  ("current_prices" :> GpuPricesLoop(rec.recommended, <<>>)) @@ rec]

(***************************************************************************)
(* The program: the tables are loaded, then callers make aggregation calls *)
(* in any order.                                                           *)
(***************************************************************************)
\* no analysis was made: no cache file, no process of the analyzer
AnalyzerUnused ==
    /\ cache_file = <<>>
    /\ news_cache_file = <<>>
    /\ NEWS_FEED = BaseNewsFeed
    /\ proc = <<>>

Init ==
    /\ \/ /\ CLOUD_PRICING \in PricingTables
          /\ HISTORICAL_PRICING \in BaseHistoryTables
       \/ /\ CLOUD_PRICING \in BasePricingTables
          /\ HISTORICAL_PRICING \in VariedHistoryTables
       \/ /\ CLOUD_PRICING \in BasePricingTables
          /\ HISTORICAL_PRICING \in RisingHistoryTables
    /\ UTILIZATION_METRICS = BaseUtilization
    /\ SUSTAINABILITY_INDEX = BaseSustainability
    /\ AnalyzerUnused
    /\ now = 0
    /\ call = NoCall
    /\ result = Return(<<>>)

Call_get_cheapest_by_gpu(gpu_id) ==
    /\ call' = Called("get_cheapest_by_gpu", gpu_id, call)
    /\ result' = Return(get_cheapest_by_gpu(gpu_id))
    /\ UNCHANGED <<tables, analyzer, now>>

Call_get_price_trends(gpu_id) ==
    /\ call' = Called("get_price_trends", gpu_id, call)
    /\ result' = Return(get_price_trends(gpu_id))
    /\ UNCHANGED <<tables, analyzer, now>>

Call_get_price_comparison_matrix ==
    /\ call' = Called("get_price_comparison_matrix", "none", call)
    /\ result' = get_price_comparison_matrix
    /\ UNCHANGED <<tables, analyzer, now>>

\* the summary is stamped with datetime.now()
Call_generate_market_summary ==
    /\ call' = Called("generate_market_summary", "none", call)
    /\ result' = generate_market_summary(now)
    /\ UNCHANGED <<tables, analyzer, now>>

\* time passes between calls
Tick ==
    /\ now < MaxTime
    /\ now' = now + 1
    /\ UNCHANGED <<tables, analyzer, call, result>>

Next ==
    \/ \E gpu_id \in GpuIdArgs : Call_get_cheapest_by_gpu(gpu_id)
    \/ \E gpu_id \in GpuIdArgs : Call_get_price_trends(gpu_id)
    \/ Call_get_price_comparison_matrix
    \/ Call_generate_market_summary
    \/ Tick

Spec == Init /\ [][Next]_vars

(***************************************************************************)
(* Callers that change what they were given.  get_price_trends returns     *)
(* HISTORICAL_PRICING[gpu_id], the dict object of the table itself, while  *)
(* get_cheapest_by_gpu returns a list it built; whatever a caller does to  *)
(* an object the table also holds is done to the table.                    *)
(***************************************************************************)
\* the result of the last call is the very object stored in the historical
\* table under the call's argument
SharedWithTable ==
    /\ call.fn = "get_price_trends"
    /\ call.arg \in DOMAIN HISTORICAL_PRICING

\* the caller removes the last item of the list or dict it was given
\* (list.pop(), dict.popitem())
Caller_pops_result ==
    /\ call.fn \in {"get_cheapest_by_gpu", "get_price_trends"}
    /\ result.kind = "return"
    /\ result.value # <<>>
    /\ LET rest == SubSeq(result.value, 1, Len(result.value) - 1)
       IN  /\ result' = Return(rest)
           /\ HISTORICAL_PRICING' =
                  IF SharedWithTable
                  THEN [HISTORICAL_PRICING EXCEPT ![call.arg] = rest]
                  ELSE HISTORICAL_PRICING
    /\ UNCHANGED <<CLOUD_PRICING, UTILIZATION_METRICS, SUSTAINABILITY_INDEX, analyzer, now, call>>

InitCallers ==
    /\ CLOUD_PRICING \in BasePricingTables
    /\ HISTORICAL_PRICING \in BaseHistoryTables
    /\ UTILIZATION_METRICS = BaseUtilization
    /\ SUSTAINABILITY_INDEX = BaseSustainability
    /\ AnalyzerUnused
    /\ now = 0
    /\ call = NoCall
    /\ result = Return(<<>>)

NextCallers ==
    \/ Next
    \/ Caller_pops_result

SpecCallers == InitCallers /\ [][NextCallers]_vars

(***************************************************************************)
(* The report functions, over snapshots of the tables they read.           *)
(***************************************************************************)
\* the pricing snapshot of the scenario: A at 2.00 and B at 1.50 for X, no
\* offering of Y
ReportBasePricing ==
    [p \in ProviderSet |->
        [gpus |-> [g \in {"X"} |-> [price_per_gpu_hr |-> IF p = "A" THEN 200 ELSE 150]],
         reserved_1yr_discount |-> 30, reserved_3yr_discount |-> 50]]

InitReports ==
    /\ \/ /\ UTILIZATION_METRICS \in UtilizationTables
          /\ SUSTAINABILITY_INDEX = BaseSustainability
          /\ CLOUD_PRICING = ReportBasePricing
       \/ /\ UTILIZATION_METRICS = BaseUtilization
          /\ SUSTAINABILITY_INDEX \in SustainabilityTables
          /\ CLOUD_PRICING = ReportBasePricing
       \/ /\ UTILIZATION_METRICS = BaseUtilization
          /\ SUSTAINABILITY_INDEX = BaseSustainability
          /\ CLOUD_PRICING \in PricingTables
    /\ HISTORICAL_PRICING \in BaseHistoryTables
    /\ AnalyzerUnused
    /\ now = 0
    /\ call = NoCall
    /\ result = Return(<<>>)

Call_get_utilization_summary ==
    /\ call' = Called("get_utilization_summary", "none", call)
    /\ result' = Return(get_utilization_summary)
    /\ UNCHANGED <<tables, analyzer, now>>

Call_get_sustainability_summary ==
    /\ call' = Called("get_sustainability_summary", "none", call)
    /\ result' = Return(get_sustainability_summary)
    /\ UNCHANGED <<tables, analyzer, now>>

Call_get_workload_recommendations ==
    /\ call' = Called("get_workload_recommendations", "none", call)
    /\ result' = Return(get_workload_recommendations)
    /\ UNCHANGED <<tables, analyzer, now>>

NextReports ==
    \/ Call_get_workload_recommendations
    \/ Call_get_utilization_summary
    \/ Call_get_sustainability_summary

SpecReports == InitReports /\ [][NextReports]_vars

(***************************************************************************)
(* The analyzer (src/ai_analyzer.py): analysis functions that ask a remote *)
(* text-generation service and keep its answers in CACHE_FILE.  All the    *)
(* cached analysis functions have one shape; they differ in the section    *)
(* key and the prompt.  A text is [kind, at]: what the service gave and    *)
(* when.                                                                   *)
(***************************************************************************)
\* the age in seconds below which load_cache accepts the file
TTL == 3600

\* the clock moves in steps of half the time to live
HalfHour == TTL \div 2

\* section keys of analyze_market_trends and get_quick_summary
Sections == {"market_trends", "quick_summary"}

NoText == [kind |-> "none", at |-> 0]

\* _call_llm returns the content of the reply, or on any failure of the
\* request the string "[LLM Error]: ..." instead of raising
LLMReplies == {[kind |-> "analysis", at |-> now], [kind |-> "error", at |-> now]}

IdleProc ==
    [pc |-> "idle", fn |-> "none", use_cache |-> FALSE, cache |-> <<>>,
     result |-> NoText, ret |-> Return(NoText), called_llm |-> FALSE]

\* cache.get("timestamp", 0)
TimestampOf(cache) == IF "timestamp" \in DOMAIN cache THEN cache["timestamp"] ELSE 0

\* _load_cache(): the file's dict when the file exists and its timestamp is
\* less than 3600 seconds old, else {}
load_cache ==
    IF cache_file # <<>> /\ now - TimestampOf(cache_file) < TTL
    THEN cache_file
    ELSE <<>>

\* as save_cache, but the sections the file holds by now are kept
save_cache_Merges(data) == ("timestamp" :> now) @@ data @@ cache_file

\* _save_cache(data): data["timestamp"] = time.time(), then the file is
\* rewritten with data
save_cache(data) == ("timestamp" :> now) @@ data

\* the head of an analysis function: with use_cache the cache is loaded and
\* a stored text of the section is returned at once
Begin(p, fn, use_cache) ==
    /\ proc[p].pc \in {"idle", "done"}
    /\ LET cache == load_cache
           hit == use_cache /\ fn \in DOMAIN cache
       IN  proc' = [proc EXCEPT ![p] =
               [pc |-> IF hit THEN "done" ELSE "ask",
                fn |-> fn,
                use_cache |-> use_cache,
                cache |-> <<>>,
                result |-> NoText,
                ret |-> IF hit THEN Return(cache[fn]) ELSE Return(NoText),
                called_llm |-> FALSE]]
    /\ UNCHANGED <<tables, cache_file, news_cache_file, NEWS_FEED, now, call, result>>

\* _build_market_context() and _call_llm(): a fault of generate_market_summary
\* leaves the analysis function as it is raised; else the service is asked
Ask(p) ==
    /\ proc[p].pc = "ask"
    /\ LET summary == generate_market_summary(now)
       IN  IF summary.kind = "raise"
           THEN proc' = [proc EXCEPT ![p].pc = "done", ![p].ret = summary]
           ELSE \E reply \in LLMReplies :
                    proc' = [proc EXCEPT ![p].pc = "load", ![p].result = reply,
                                         ![p].called_llm = TRUE]
    /\ UNCHANGED <<tables, cache_file, news_cache_file, NEWS_FEED, now, call, result>>

\* cache = _load_cache() after the reply
Load(p) ==
    /\ proc[p].pc = "load"
    /\ proc' = [proc EXCEPT ![p].pc = "save", ![p].cache = load_cache]
    /\ UNCHANGED <<tables, cache_file, news_cache_file, NEWS_FEED, now, call, result>>

\* cache[section] = result; _save_cache(cache); return result
Save(p) ==
    /\ proc[p].pc = "save"
    /\ cache_file' = save_cache((proc[p].fn :> proc[p].result) @@ proc[p].cache)
    /\ proc' = [proc EXCEPT ![p].pc = "done", ![p].cache = <<>>,
                            ![p].ret = Return(proc[p].result)]
    /\ UNCHANGED <<tables, news_cache_file, NEWS_FEED, now, call, result>>

\* half an hour passes between two calls; a call itself is short beside it
\* (the request to the service times out after 120 seconds)
Elapse ==
    /\ \A p \in DOMAIN proc : proc[p].pc \in {"idle", "done"}
    /\ now < MaxHalfHours * HalfHour
    /\ now' = now + HalfHour
    /\ UNCHANGED <<tables, analyzer, call, result>>

\* GET /api/summary: self.send_json(generate_market_summary()), with nothing
\* around it to catch what generate_market_summary raises; what is returned
\* is the body of the response
Get_api_summary ==
    /\ call' = Called("GET /api/summary", "none", call)
    /\ result' = generate_market_summary(now)
    /\ UNCHANGED <<tables, analyzer, now>>

\* the pricing snapshot in which no provider offers any GPU
NoOfferPricing ==
    [p \in ProviderSet |->
        [gpus |-> <<>>, reserved_1yr_discount |-> 30, reserved_3yr_discount |-> 50]]

\* one process, the terminal dashboard, and no cache file yet
InitAnalyzer ==
    /\ CLOUD_PRICING \in {ReportBasePricing, NoOfferPricing}
    /\ HISTORICAL_PRICING = [g \in GpuSet |-> ScenarioHistory]
    /\ UTILIZATION_METRICS = BaseUtilization
    /\ SUSTAINABILITY_INDEX = BaseSustainability
    /\ cache_file = <<>>
    /\ news_cache_file = <<>>
    /\ NEWS_FEED = BaseNewsFeed
    /\ proc = [p \in {"terminal"} |-> IdleProc]
    /\ now = 0
    /\ call = NoCall
    /\ result = Return(<<>>)

NextAnalyzer ==
    \/ \E p \in DOMAIN proc, fn \in Sections, use_cache \in BOOLEAN : Begin(p, fn, use_cache)
    \/ \E p \in DOMAIN proc : Ask(p)
    \/ \E p \in DOMAIN proc : Load(p)
    \/ \E p \in DOMAIN proc : Save(p)
    \/ Get_api_summary
    \/ Elapse

SpecAnalyzer == InitAnalyzer /\ [][NextAnalyzer]_vars

(***************************************************************************)
(* Two processes on one cache file: the terminal dashboard and the web     *)
(* server it starts with os.system (terminal_dashboard.py, "web").  Each   *)
(* runs analysis functions; the steps of the two interleave freely, since  *)
(* nothing locks the file.                                                 *)
(***************************************************************************)
Processes == {"terminal", "server"}

InitConcurrent ==
    /\ CLOUD_PRICING = ReportBasePricing
    /\ HISTORICAL_PRICING = [g \in GpuSet |-> ScenarioHistory]
    /\ UTILIZATION_METRICS = BaseUtilization
    /\ SUSTAINABILITY_INDEX = BaseSustainability
    /\ cache_file = <<>>
    /\ news_cache_file = <<>>
    /\ NEWS_FEED = BaseNewsFeed
    /\ proc = [p \in Processes |-> IdleProc]
    /\ now = 0
    /\ call = NoCall
    /\ result = Return(<<>>)

NextConcurrent ==
    \/ \E p \in Processes, fn \in Sections, use_cache \in BOOLEAN : Begin(p, fn, use_cache)
    \/ \E p \in Processes : Ask(p)
    \/ \E p \in Processes : Load(p)
    \/ \E p \in Processes : Save(p)

SpecConcurrent == InitConcurrent /\ [][NextConcurrent]_vars

(***************************************************************************)
(* generate_daily_news (src/ai_analyzer.py).  A date string "%Y-%m-%d" is  *)
(* the triple <<year, month, day>>: the strings are zero-padded, so they   *)
(* compare as the triples do.  strptime and timedelta arithmetic go        *)
(* through the day number of the proleptic Gregorian calendar.             *)
(***************************************************************************)
IsLeap(y) == (y % 4 = 0 /\ y % 100 # 0) \/ y % 400 = 0

DaysInMonth(y, m) ==
    IF m = 2 THEN (IF IsLeap(y) THEN 29 ELSE 28)
    ELSE IF m \in {4, 6, 9, 11} THEN 30
    ELSE 31

\* days before 1 January of year y
DaysBeforeYear(y) ==
    (y - 1) * 365 + ((y - 1) \div 4) - ((y - 1) \div 100) + ((y - 1) \div 400)

\* days of year y before the first of month m
RECURSIVE DaysBeforeMonth(_, _)
DaysBeforeMonth(y, m) ==
    IF m = 1 THEN 0 ELSE DaysBeforeMonth(y, m - 1) + DaysInMonth(y, m - 1)

DaysInYear(y) == IF IsLeap(y) THEN 366 ELSE 365

\* datetime.strptime(date, "%Y-%m-%d") as a day number
toordinal(date) == DaysBeforeYear(date[1]) + DaysBeforeMonth(date[1], date[2]) + date[3]

\* the years the dates of the model fall in
Years == 2025..2027

\* (day number).strftime("%Y-%m-%d")
fromordinal(n) ==
    LET y == CHOOSE yy \in Years :
                 DaysBeforeYear(yy) < n /\ n <= DaysBeforeYear(yy) + DaysInYear(yy)
        rest == n - DaysBeforeYear(y)
        m == CHOOSE mm \in 1..12 :
                 DaysBeforeMonth(y, mm) < rest
                     /\ rest <= DaysBeforeMonth(y, mm) + DaysInMonth(y, mm)
    IN  <<y, m, rest - DaysBeforeMonth(y, m)>>

\* comparison of two date strings
DateLess(a, b) ==
    \/ a[1] < b[1]
    \/ a[1] = b[1] /\ a[2] < b[2]
    \/ a[1] = b[1] /\ a[2] = b[2] /\ a[3] < b[3]

\* max(n["date"] for n in feed), feed not empty
RECURSIVE MaxDate(_)
MaxDate(feed) ==
    IF Len(feed) = 1 THEN feed[1].date
    ELSE LET rest == MaxDate(Tail(feed))
         IN  IF DateLess(feed[1].date, rest) THEN rest ELSE feed[1].date

SecondsPerDay == 24 * 3600

\* the calendar date at which the clock reads 0
Epoch == <<2026, 2, 27>>

\* datetime.now().strftime("%Y-%m-%d")
Today == fromordinal(toordinal(Epoch) + now \div SecondsPerDay)

\* the least length of a news list that generate_daily_news accepts
MinNews == 5

required_keys == {"date", "source", "headline", "category", "sentiment", "impact"}

\* a news item of the service's reply, the n-th of its list
NewsItem(n) ==
    [date |-> Today, source |-> "wire", headline |-> n, category |-> "pricing",
     sentiment |-> "neutral", impact |-> "high"]

\* the same without its "impact"
ItemWithoutImpact(n) ==
    [date |-> Today, source |-> "wire", headline |-> n, category |-> "pricing",
     sentiment |-> "neutral"]

\* what _call_llm may return to generate_daily_news: its error string, text
\* that is not JSON, or a JSON array, bare or inside a markdown fence
Replies ==
    {[fence |-> FALSE, text |-> "[LLM Error]", array |-> <<>>],
     [fence |-> FALSE, text |-> "not json", array |-> <<>>]}
    \cup
    {[fence |-> f, text |-> "json array", array |-> a] :
        f \in BOOLEAN,
        a \in {[n \in 1..MinNews |-> NewsItem(n)],
               [n \in 1..(MinNews - 1) |-> NewsItem(n)],
               [n \in 1..MinNews |-> IF n = MinNews THEN ItemWithoutImpact(n)
                                                   ELSE NewsItem(n)]}}

\* the stripping of the markdown fence and json.loads: the parsed array, or
\* the fault of json.loads on text that is no JSON
ParseReply(raw) ==
    IF raw.text = "json array"
    THEN Return(raw.array)
    ELSE Raise("JSONDecodeError")

\* the validation of the parsed list
ValidateNews(news) ==
    IF Len(news) < MinNews THEN Raise("ValueError")
    ELSE IF \E i \in 1..Len(news) : ~(required_keys \subseteq DOMAIN news[i])
         THEN Raise("ValueError")
         ELSE Return(news)

\* as NewsCacheHit, whatever the date of the file
NewsCacheHit_AnyDate ==
    /\ news_cache_file # <<>>
    /\ Len(news_cache_file.news) > 0

\* the news cache file exists, its date is today's and its list has items
NewsCacheHit ==
    /\ news_cache_file # <<>>
    /\ news_cache_file.date = Today
    /\ Len(news_cache_file.news) > 0

\* as ShiftedFeed, the gap taken from the last item of the feed
ShiftedFeed_GapFromLast(feed) ==
    LET gap == toordinal(Today) - toordinal(feed[Len(feed)].date)
    IN  [i \in 1..Len(feed) |->
            [feed[i] EXCEPT !.date = fromordinal(toordinal(feed[i].date) + gap)]]

\* the fallback: copies of the items of the feed, each date moved by the
\* days from the feed's latest date to today
ShiftedFeed(feed) ==
    LET gap == toordinal(Today) - toordinal(MaxDate(feed))
    IN  [i \in 1..Len(feed) |->
            [feed[i] EXCEPT !.date = fromordinal(toordinal(feed[i].date) + gap)]]

\* generate_daily_news() by the server process, the service replying raw
Call_generate_daily_news(raw) ==
    LET summary == generate_market_summary(now)
        parsed == ParseReply(raw)
        news == IF parsed.kind = "raise" THEN parsed ELSE ValidateNews(parsed.value)
        ended(ret, asked) ==
            [proc EXCEPT !["server"] =
                [pc |-> "done", fn |-> "daily_news", use_cache |-> TRUE, cache |-> <<>>,
                 result |-> IF asked THEN raw ELSE [fence |-> FALSE, text |-> "none", array |-> <<>>],
                 ret |-> ret, called_llm |-> asked]]
    IN  IF NewsCacheHit
        THEN /\ proc' = ended(Return(news_cache_file.news), FALSE)
             /\ UNCHANGED <<tables, cache_file, news_cache_file, NEWS_FEED, now, call, result>>
        ELSE IF summary.kind = "raise"
        THEN /\ proc' = ended(summary, FALSE)
             /\ UNCHANGED <<tables, cache_file, news_cache_file, NEWS_FEED, now, call, result>>
        ELSE IF news.kind = "return"
        THEN /\ news_cache_file' = [date |-> Today, news |-> news.value, timestamp |-> now]
             /\ proc' = ended(news, TRUE)
             /\ UNCHANGED <<tables, cache_file, NEWS_FEED, now, call, result>>
        ELSE /\ proc' = ended(IF NEWS_FEED # <<>> THEN Return(ShiftedFeed(NEWS_FEED))
                                                  ELSE Return(NEWS_FEED), TRUE)
             /\ UNCHANGED <<tables, cache_file, news_cache_file, NEWS_FEED, now, call, result>>

\* the next day begins
Midnight ==
    /\ now < MaxDays * SecondsPerDay
    /\ now' = now + SecondsPerDay
    /\ UNCHANGED <<tables, analyzer, call, result>>

InitNews ==
    /\ CLOUD_PRICING \in {ReportBasePricing, NoOfferPricing}
    /\ HISTORICAL_PRICING = [g \in GpuSet |-> ScenarioHistory]
    /\ UTILIZATION_METRICS = BaseUtilization
    /\ SUSTAINABILITY_INDEX = BaseSustainability
    /\ cache_file = <<>>
    /\ news_cache_file = <<>>
    /\ NEWS_FEED = BaseNewsFeed
    /\ proc = [p \in {"server"} |-> IdleProc]
    /\ now = 0
    /\ call = NoCall
    /\ result = Return(<<>>)

NextNews ==
    \/ \E raw \in Replies : Call_generate_daily_news(raw)
    \/ Midnight

SpecNews == InitNews /\ [][NextNews]_vars

(***************************************************************************)
(* The terminal dashboard (src/terminal_dashboard.py).  GPU X stands for   *)
(* "H100-SXM", the GPU of the commands "h100", "h" and "1", and GPU Y for  *)
(* "A100-80GB", the GPU of "a100" and "2".                                 *)
(***************************************************************************)
\* the keys of the dict get_cheapest_by_gpu appends for an offering
ProducedFields ==
    {"provider", "provider_name", "provider_type", "instance", "price_per_gpu_hr",
     "price_monthly", "reserved_1yr", "reserved_3yr", "regions"}

\* the keys render_provider_comparison reads of an offering p, in the order
\* in which the loop body evaluates them
ReadFields ==
    <<"price_per_gpu_hr", "spot_price", "provider", "instance", "price_per_gpu_hr",
      "reserved_1yr", "reserved_3yr", "price_monthly", "price_monthly">>

\* the first key read that the offering does not have, or "none"
RECURSIVE FirstMissing(_)
FirstMissing(fields) ==
    IF fields = <<>> THEN "none"
    ELSE IF Head(fields) \notin ProducedFields THEN Head(fields)
         ELSE FirstMissing(Tail(fields))

\* the premium over the best price in tenths of a percent, 0 for a free best
Premium(price, best) ==
    IF best > 0 THEN RoundDiv((price - best) * 1000, best) ELSE 0

\* render_provider_comparison(gpu_id): one row for each offering of
\* get_cheapest_by_gpu; p[key] of a key the offering lacks is a KeyError
render_provider_comparison(gpu_id) ==
    LET providers == get_cheapest_by_gpu(gpu_id)
    IN  IF providers = <<>> THEN Return(<<>>)
        ELSE IF FirstMissing(ReadFields) # "none" THEN Raise("KeyError")
        ELSE Return([i \in 1..Len(providers) |->
                 [provider |-> providers[i].provider,
                  price_per_gpu_hr |-> providers[i].price_per_gpu_hr,
                  reserved_1yr |-> providers[i].reserved_1yr,
                  reserved_3yr |-> providers[i].reserved_3yr,
                  price_monthly |-> providers[i].price_monthly,
                  annual |-> providers[i].price_monthly * 12,
                  vs_best |-> Premium(providers[i].price_per_gpu_hr,
                                      providers[1].price_per_gpu_hr)]])

\* what the user types at the prompt, after strip().lower()
Commands == {"q", "r", "a", "h", "s", "i", "n", "help", "?", "1", "2", "a100", "x"}

\* the if/elif chain of run_interactive: the branch a command runs and the
\* GPU it passes
Dispatch(cmd) ==
    IF cmd \in {"q", "quit", "exit"} THEN [run |-> "break", gpu_id |-> "none"]
    ELSE IF cmd \in {"r", "refresh"} THEN [run |-> "print_full_dashboard", gpu_id |-> "none"]
    ELSE IF cmd \in {"a", "ai", "analysis"} THEN [run |-> "get_all_analyses", gpu_id |-> "none"]
    ELSE IF cmd \in {"h100", "h", "1"} THEN [run |-> "render_provider_comparison", gpu_id |-> "X"]
    ELSE IF cmd \in {"a100", "2"} THEN [run |-> "render_provider_comparison", gpu_id |-> "Y"]
    ELSE IF cmd \in {"spot", "s"} THEN [run |-> "render_spot_market", gpu_id |-> "none"]
    ELSE IF cmd \in {"inference", "inf", "i"} THEN [run |-> "render_inference_economics", gpu_id |-> "none"]
    ELSE IF cmd \in {"news", "n"} THEN [run |-> "render_news_feed", gpu_id |-> "none"]
    ELSE IF cmd \in {"help", "?"} THEN [run |-> "help", gpu_id |-> "none"]
    ELSE [run |-> "unknown", gpu_id |-> "none"]

\* one turn of the loop: the command's branch runs; "break" and an exception
\* that leaves the branch end the loop
Command(cmd) ==
    /\ proc["terminal"].pc = "idle"
    /\ LET branch == Dispatch(cmd)
           shown == IF branch.run = "render_provider_comparison"
                    THEN render_provider_comparison(branch.gpu_id)
                    ELSE Return(branch.run)
       IN  /\ call' = Called(branch.run, cmd, call)
           /\ result' = shown
           /\ proc' = [proc EXCEPT !["terminal"].pc =
                          IF branch.run = "break" \/ shown.kind = "raise"
                          THEN "exited" ELSE "idle"]
    /\ UNCHANGED <<tables, cache_file, news_cache_file, NEWS_FEED, now>>

InitTerminal ==
    /\ CLOUD_PRICING \in PricingTables
    /\ HISTORICAL_PRICING = [g \in GpuSet |-> ScenarioHistory]
    /\ UTILIZATION_METRICS = BaseUtilization
    /\ SUSTAINABILITY_INDEX = BaseSustainability
    /\ cache_file = <<>>
    /\ news_cache_file = <<>>
    /\ NEWS_FEED = BaseNewsFeed
    /\ proc = [p \in {"terminal"} |-> IdleProc]
    /\ now = 0
    /\ call = NoCall
    /\ result = Return(<<>>)

NextTerminal == \E cmd \in Commands : Command(cmd)

SpecTerminal == InitTerminal /\ [][NextTerminal]_vars

(***************************************************************************)
(* Properties of get_cheapest_by_gpu                                       *)
(***************************************************************************)
\* the providers whose price list contains gpu_id
Listing(gpu_id) == {p \in ProviderSet : gpu_id \in DOMAIN CLOUD_PRICING[p].gpus}

\* C1: for every GPU id, get_cheapest_by_gpu returns (it does not raise) a
\* list with exactly one entry for each provider that lists the id and no
\* other entry, in non-decreasing order of price_per_gpu_hr.
CheapestListsEachProviderOnceSorted ==
    call.fn = "get_cheapest_by_gpu" =>
        /\ result.kind = "return"
        /\ LET r == result.value
           IN  /\ \A i \in DOMAIN r : r[i].provider \in Listing(call.arg)
               /\ \A p \in Listing(call.arg) :
                      Cardinality({i \in DOMAIN r : r[i].provider = p}) = 1
               /\ \A i \in 1..(Len(r) - 1) :
                      r[i].price_per_gpu_hr <= r[i + 1].price_per_gpu_hr

\* the later provider of the table is the cheaper one and comes first
CheapestReordersProviders ==
    /\ call.fn = "get_cheapest_by_gpu"
    /\ result.kind = "return"
    /\ Len(result.value) = 2
    /\ result.value[1].provider = "B"
    /\ result.value[2].provider = "A"
    /\ result.value[1].price_per_gpu_hr < result.value[2].price_per_gpu_hr

\* C2: every entry of get_cheapest_by_gpu carries the provider's hourly
\* price for the GPU, price_monthly = price * 730, reserved_1yr = price *
\* (1 - reserved_1yr_discount) and reserved_3yr = price * (1 -
\* reserved_3yr_discount).
OfferingPricesDerived ==
    (call.fn = "get_cheapest_by_gpu" /\ result.kind = "return") =>
        \A i \in DOMAIN result.value :
            LET e == result.value[i]
                data == CLOUD_PRICING[e.provider]
                price == data.gpus[call.arg].price_per_gpu_hr
            IN  /\ e.price_per_gpu_hr = price
                /\ e.price_monthly = price * 730
                /\ e.reserved_1yr = price * (100 - data.reserved_1yr_discount)
                /\ e.reserved_3yr = price * (100 - data.reserved_3yr_discount)

\* A at 2.00 and B at 1.50, both with discounts 0.30 / 0.50: the result is
\* [B, A] and B's reserved_3yr is 0.75
ScenarioOneReached ==
    /\ call.fn = "get_cheapest_by_gpu"
    /\ call.arg = "X"
    /\ Listing("X") = ProviderSet
    /\ CLOUD_PRICING["A"].gpus["X"].price_per_gpu_hr = 200
    /\ CLOUD_PRICING["B"].gpus["X"].price_per_gpu_hr = 150
    /\ \A p \in ProviderSet :
           /\ CLOUD_PRICING[p].reserved_1yr_discount = 30
           /\ CLOUD_PRICING[p].reserved_3yr_discount = 50
    /\ result.kind = "return"
    /\ Len(result.value) = 2
    /\ result.value[1].provider = "B"
    /\ result.value[2].provider = "A"
    /\ result.value[1].reserved_3yr = 7500

(***************************************************************************)
(* Properties of get_price_comparison_matrix                               *)
(***************************************************************************)
\* the GPUs of the spec table that some provider offers
OfferedGpus == {g \in GpuSet : Listing(g) # {}}

MatrixReturned ==
    /\ call.fn = "get_price_comparison_matrix"
    /\ result.kind = "return"

\* C3: the matrix has exactly one row per GPU with at least one offering and
\* none for a GPU without: as many rows as GPUs for which
\* get_cheapest_by_gpu is non-empty, and no gpu_id in two rows.
MatrixOneRowPerOfferedGpu ==
    MatrixReturned =>
        LET rows == result.value
        IN  /\ Len(rows) = Cardinality({g \in GpuSet : get_cheapest_by_gpu(g) # <<>>})
            /\ \A i, j \in DOMAIN rows : i # j => rows[i].gpu_id # rows[j].gpu_id
            /\ {rows[i].gpu_id : i \in DOMAIN rows} = OfferedGpus

\* the first GPU of the spec table has no offering, the second has its row
MatrixSkipsUnofferedGpu ==
    /\ MatrixReturned
    /\ Listing("X") = {}
    /\ Len(result.value) = 1
    /\ result.value[1].gpu_id = "Y"

\* C4: the rows of the matrix are in non-increasing order of cheapest_price.
MatrixSortedByCheapestDesc ==
    MatrixReturned =>
        \A i \in 1..(Len(result.value) - 1) :
            result.value[i].cheapest_price >= result.value[i + 1].cheapest_price

\* the later GPU of the spec table is the dearer one and comes first
MatrixReordersRows ==
    /\ MatrixReturned
    /\ Len(result.value) = 2
    /\ result.value[1].gpu_id = "Y"
    /\ result.value[2].gpu_id = "X"
    /\ result.value[1].cheapest_price > result.value[2].cheapest_price

\* the period a key "YYYY-MM" names, in months
Chron(key) ==
    (key[1] * 1000 + key[2] * 100 + key[3] * 10 + key[4]) * 12 + key[5] * 10 + key[6]

\* the entry of a series with the k-th latest period (k = 1: the latest)
KthLatest(series, k) ==
    series[CHOOSE i \in DOMAIN series :
        Cardinality({j \in DOMAIN series :
            Chron(series[j].period) > Chron(series[i].period)}) = k - 1]

\* the stored series of a GPU, empty when the table has no entry for it
SeriesOf(gpu_id) ==
    IF gpu_id \in DOMAIN HISTORICAL_PRICING THEN HISTORICAL_PRICING[gpu_id] ELSE <<>>

\* C8: for a GPU with at least two historical periods, the row's
\* monthly_change_pct is (latest - prev) / prev * 100 rounded to one
\* decimal, latest and prev being the avg of the chronologically last and
\* second-to-last periods, in whatever order the periods are stored.
MonthlyChangeFromLatestTwoPeriods ==
    MatrixReturned =>
        \A i \in DOMAIN result.value :
            LET row == result.value[i]
                series == SeriesOf(row.gpu_id)
            IN  Len(series) >= 2 =>
                    LET latest == KthLatest(series, 1).avg
                        prev == KthLatest(series, 2).avg
                    IN  /\ prev # 0
                        /\ row.monthly_change_pct = RoundDiv((latest - prev) * 1000, prev)

\* avg 2.00 followed by avg 1.80, stored latest first, gives -10.0
ScenarioTwoStoredBackwards ==
    /\ MatrixReturned
    /\ \E i \in DOMAIN result.value :
           LET series == SeriesOf(result.value[i].gpu_id)
           IN  /\ Len(series) = 2
               /\ Chron(series[1].period) > Chron(series[2].period)
               /\ series[1].avg = 180
               /\ series[2].avg = 200
               /\ result.value[i].monthly_change_pct = 0 - 100

\* the trend block of some offered GPU divides by a zero avg
SomeTrendDividesByZero ==
    \E g \in OfferedGpus :
        /\ Len(SeriesOf(g)) >= 2
        /\ KthLatest(SeriesOf(g), 2).avg = 0

\* C9: a GPU with offerings and zero or one historical period (or none in
\* the historical table) has its row in the matrix, with monthly_change_pct
\* exactly 0; the matrix is not returned only when another GPU's trend
\* block divides by a zero avg.
SparseHistoryRowHasZeroChange ==
    call.fn = "get_price_comparison_matrix" =>
        /\ result.kind = "return" =>
               \A g \in OfferedGpus :
                   Len(SeriesOf(g)) < 2 =>
                       /\ Cardinality({i \in DOMAIN result.value :
                                          result.value[i].gpu_id = g}) = 1
                       /\ \A i \in DOMAIN result.value :
                              result.value[i].gpu_id = g =>
                                  result.value[i].monthly_change_pct = 0
        /\ result.kind = "raise" => SomeTrendDividesByZero

\* the matrix has two rows, one of them for a GPU that is missing from the
\* historical table, with monthly_change_pct 0
SparseHistoryRowsEmitted ==
    /\ MatrixReturned
    /\ Len(result.value) = 2
    /\ \E i \in DOMAIN result.value :
           /\ result.value[i].gpu_id \notin DOMAIN HISTORICAL_PRICING
           /\ result.value[i].monthly_change_pct = 0

\* the hourly prices at which the providers offer gpu_id
PricesOf(gpu_id) ==
    {CLOUD_PRICING[p].gpus[gpu_id].price_per_gpu_hr : p \in Listing(gpu_id)}

MinOf(S) == CHOOSE x \in S : \A y \in S : x <= y

MaxOf(S) == CHOOSE x \in S : \A y \in S : x >= y

\* C10 as stated: price_spread_pct is (most_expensive - cheapest) / cheapest
\* * 100 itself when cheapest_price > 0, and 0 when it is 0.
PriceSpreadExact ==
    MatrixReturned =>
        \A i \in DOMAIN result.value :
            LET row == result.value[i]
                cheapest == MinOf(PricesOf(row.gpu_id))
                most_expensive == MaxOf(PricesOf(row.gpu_id))
            IN  IF cheapest > 0
                THEN row.price_spread_pct * cheapest = (most_expensive - cheapest) * 1000
                ELSE row.price_spread_pct = 0

\* C10: in every row, when cheapest_price > 0, flops_per_dollar =
\* fp16_tflops / cheapest_price, vram_per_dollar = vram_gb / cheapest_price
\* and price_spread_pct = (most_expensive - cheapest) / cheapest * 100, each
\* rounded to one decimal; when cheapest_price is 0 all three are 0.
RatiosGuardZeroPrice ==
    MatrixReturned =>
        \A i \in DOMAIN result.value :
            LET row == result.value[i]
                spec == GPU_SPECS[row.gpu_id]
                cheapest == MinOf(PricesOf(row.gpu_id))
                most_expensive == MaxOf(PricesOf(row.gpu_id))
            IN  /\ row.cheapest_price = cheapest
                /\ IF cheapest > 0
                   THEN /\ row.flops_per_dollar = RoundDiv(spec.fp16_tflops * 1000, cheapest)
                        /\ row.vram_per_dollar = RoundDiv(spec.vram_gb * 1000, cheapest)
                        /\ row.price_spread_pct =
                               RoundDiv((most_expensive - cheapest) * 1000, cheapest)
                   ELSE /\ row.flops_per_dollar = 0
                        /\ row.vram_per_dollar = 0
                        /\ row.price_spread_pct = 0

\* fp16 1000 at 2.00 gives 500.0, beside a GPU whose cheapest price is 0 and
\* whose three ratios are 0
ScenarioFourReached ==
    /\ MatrixReturned
    /\ Len(result.value) = 2
    /\ result.value[1].gpu_id = "X"
    /\ result.value[1].cheapest_price = 200
    /\ result.value[1].flops_per_dollar = 5000
    /\ result.value[1].price_spread_pct = 0
    /\ result.value[2].cheapest_price = 0
    /\ result.value[2].most_expensive > 0
    /\ result.value[2].flops_per_dollar = 0
    /\ result.value[2].vram_per_dollar = 0
    /\ result.value[2].price_spread_pct = 0

(***************************************************************************)
(* Properties of generate_market_summary                                   *)
(***************************************************************************)
SummaryCalled == call.fn = "generate_market_summary"

\* C5: when no GPU has any offering, generate_market_summary signals a
\* named "insufficient data" condition; the ValueError of max() over an
\* empty sequence does not reach the caller.
EmptyMatrixSignalsInsufficientData ==
    (SummaryCalled /\ OfferedGpus = {}) =>
        ~(result.kind = "raise" /\ result.exc = "ValueError")

\* C6: over a non-empty matrix the summary reports a row of maximal
\* flops_per_dollar, a row of maximal vram_per_dollar, a row of minimal
\* monthly_change_pct and a row of maximal num_providers.
SummaryPicksExtremeRows ==
    (SummaryCalled /\ result.kind = "return") =>
        LET rows == get_price_comparison_matrix.value
            summary == result.value
        IN  /\ \E i \in DOMAIN rows :
                   /\ rows[i].name = summary.best_flops_per_dollar.gpu
                   /\ rows[i].flops_per_dollar = summary.best_flops_per_dollar.value
                   /\ rows[i].cheapest_price = summary.best_flops_per_dollar.at_price
                   /\ rows[i].cheapest_provider = summary.best_flops_per_dollar.provider
                   /\ \A j \in DOMAIN rows :
                          rows[j].flops_per_dollar <= rows[i].flops_per_dollar
            /\ \E i \in DOMAIN rows :
                   /\ rows[i].name = summary.best_vram_per_dollar.gpu
                   /\ rows[i].vram_per_dollar = summary.best_vram_per_dollar.value
                   /\ rows[i].cheapest_price = summary.best_vram_per_dollar.at_price
                   /\ rows[i].cheapest_provider = summary.best_vram_per_dollar.provider
                   /\ \A j \in DOMAIN rows :
                          rows[j].vram_per_dollar <= rows[i].vram_per_dollar
            /\ \E i \in DOMAIN rows :
                   /\ rows[i].name = summary.biggest_price_drop.gpu
                   /\ rows[i].monthly_change_pct = summary.biggest_price_drop.change_pct
                   /\ \A j \in DOMAIN rows :
                          rows[j].monthly_change_pct >= rows[i].monthly_change_pct
            /\ \E i \in DOMAIN rows :
                   /\ rows[i].name = summary.most_competitive_market.gpu
                   /\ rows[i].num_providers = summary.most_competitive_market.num_providers
                   /\ rows[i].price_spread_pct =
                          summary.most_competitive_market.price_spread_pct
                   /\ \A j \in DOMAIN rows :
                          rows[j].num_providers <= rows[i].num_providers

\* the best capacity per dollar is the first row of the matrix and every
\* other selection falls on the second
SummaryPicksDifferentRows ==
    /\ SummaryCalled
    /\ result.kind = "return"
    /\ LET rows == result.value.comparison_matrix
           summary == result.value
       IN  /\ Len(rows) = 2
           /\ rows[2].flops_per_dollar > rows[1].flops_per_dollar
           /\ rows[2].vram_per_dollar < rows[1].vram_per_dollar
           /\ rows[2].monthly_change_pct < rows[1].monthly_change_pct
           /\ rows[2].num_providers > rows[1].num_providers
           /\ summary.best_flops_per_dollar.gpu = rows[2].name
           /\ summary.best_vram_per_dollar.gpu = rows[1].name
           /\ summary.biggest_price_drop.gpu = rows[2].name
           /\ summary.most_competitive_market.gpu = rows[2].name

(***************************************************************************)
(* Repeated calls                                                          *)
(***************************************************************************)
\* a step that repeats the call made last, on unchanged tables
RepeatedCall ==
    /\ call.fn # "none"
    /\ call'.fn = call.fn
    /\ call'.arg = call.arg
    /\ UNCHANGED tables

Unstamped(r) ==
    IF r.kind = "return" /\ call.fn = "generate_market_summary"
    THEN Return([f \in (DOMAIN r.value) \ {"timestamp"} |-> r.value[f]])
    ELSE r

ReservedPricesOrdered ==
    /\ \A p \in ProviderSet :
           /\ 0 <= CLOUD_PRICING[p].reserved_1yr_discount
           /\ CLOUD_PRICING[p].reserved_1yr_discount <= 100
           /\ 0 <= CLOUD_PRICING[p].reserved_3yr_discount
           /\ CLOUD_PRICING[p].reserved_3yr_discount <= 100
    /\ (call.fn = "get_cheapest_by_gpu" /\ result.kind = "return") =>
           \A i \in DOMAIN result.value :
               LET e == result.value[i]
                   data == CLOUD_PRICING[e.provider]
               IN  (/\ data.reserved_3yr_discount >= data.reserved_1yr_discount
                    /\ data.reserved_1yr_discount >= 0) =>
                       /\ e.reserved_3yr <= e.reserved_1yr
                       /\ e.reserved_1yr <= e.price_per_gpu_hr * 100

\* an offering at a non-zero price of a provider whose 3-year discount is
\* the larger one: its three prices are strictly ordered
ReservedPricesStrictlyOrdered ==
    /\ call.fn = "get_cheapest_by_gpu"
    /\ result.kind = "return"
    /\ \E i \in DOMAIN result.value :
           LET e == result.value[i]
               data == CLOUD_PRICING[e.provider]
           IN  /\ data.reserved_3yr_discount > data.reserved_1yr_discount
               /\ data.reserved_1yr_discount > 0
               /\ e.reserved_3yr < e.reserved_1yr
               /\ e.reserved_1yr < e.price_per_gpu_hr * 100

(***************************************************************************)
(* Rows the summary selects                                                *)
(***************************************************************************)
\* the rows of the summary's matrix that carry the name the summary reports
\* under one of its four selections
SelectedRows ==
    LET s == result.value
        names == {s.best_flops_per_dollar.gpu, s.best_vram_per_dollar.gpu,
                  s.biggest_price_drop.gpu, s.most_competitive_market.gpu}
    IN  {i \in DOMAIN s.comparison_matrix : s.comparison_matrix[i].name \in names}

\* C12: over a non-empty matrix, none of the four rows generate_market_summary
\* selects (best flops per dollar, best vram per dollar, biggest price drop,
\* most competitive market) has num_providers equal to 0.
SelectedRowsHaveProviders ==
    (SummaryCalled /\ result.kind = "return") =>
        /\ SelectedRows # {}
        /\ \A i \in SelectedRows : result.value.comparison_matrix[i].num_providers # 0
        /\ result.value.most_competitive_market.num_providers # 0

\* a summary over a table in which one GPU has no offering and is the only
\* one whose price fell
SummaryPassesOverUnofferedGpu ==
    /\ SummaryCalled
    /\ result.kind = "return"
    /\ \E g \in GpuSet \ OfferedGpus :
           /\ g \in DOMAIN HISTORICAL_PRICING
           /\ HISTORICAL_PRICING[g] = ScenarioHistory
           /\ \A i \in DOMAIN result.value.comparison_matrix :
                  /\ result.value.comparison_matrix[i].gpu_id # g
                  /\ result.value.comparison_matrix[i].monthly_change_pct = 0

(***************************************************************************)
(* Results and tables                                                      *)
(***************************************************************************)
\* C13: every aggregation function returns a freshly constructed result that
\* shares nothing with a reference table, so nothing a caller does to a
\* returned result changes a table: the tables stay as they were loaded.
ReturnedResultsShareNothing == [][tables' = tables]_vars

(***************************************************************************)
(* The biggest price drop                                                  *)
(***************************************************************************)
\* C14: the row generate_market_summary reports as biggest_price_drop never
\* has a positive monthly_change_pct, also when the monthly change of every
\* row of the matrix is positive.
BiggestDropIsNeverARise ==
    (SummaryCalled /\ result.kind = "return") =>
        result.value.biggest_price_drop.change_pct <= 0

(***************************************************************************)
(* Stability of the two sorts                                              *)
(***************************************************************************)
\* the place of x in the iteration order seq
IndexIn(seq, x) == CHOOSE i \in DOMAIN seq : seq[i] = x

\* C15: sorting is stable: two offerings of get_cheapest_by_gpu with equal
\* price_per_gpu_hr appear in the iteration order of the provider table, and
\* two rows of the matrix with equal cheapest_price appear in the iteration
\* order of the GPU spec table.
SortsAreStable ==
    /\ (call.fn = "get_cheapest_by_gpu" /\ result.kind = "return") =>
           \A i, j \in DOMAIN result.value :
               (/\ i < j
                /\ result.value[i].price_per_gpu_hr = result.value[j].price_per_gpu_hr) =>
                   IndexIn(ProviderOrder, result.value[i].provider)
                       < IndexIn(ProviderOrder, result.value[j].provider)
    /\ MatrixReturned =>
           \A i, j \in DOMAIN result.value :
               (/\ i < j
                /\ result.value[i].cheapest_price = result.value[j].cheapest_price) =>
                   IndexIn(GpuOrder, result.value[i].gpu_id)
                       < IndexIn(GpuOrder, result.value[j].gpu_id)

\* a matrix whose two rows tie on cheapest_price, each GPU offered by both
\* providers at one price: the rows are in spec-table order and the first
\* provider of the table is the cheapest_provider of each
MatrixBreaksTiesByTableOrder ==
    /\ MatrixReturned
    /\ Len(result.value) = 2
    /\ result.value[1].cheapest_price = result.value[2].cheapest_price
    /\ result.value[1].gpu_id = GpuOrder[1]
    /\ \A i \in 1..2 :
           /\ result.value[i].num_providers = 2
           /\ result.value[i].most_expensive = result.value[i].cheapest_price
           /\ result.value[i].cheapest_provider = ProviderOrder[1]

(***************************************************************************)
(* A previous period with average price zero                               *)
(***************************************************************************)
\* C16: get_price_comparison_matrix never raises on a zero price: it returns
\* the matrix, and the row of a GPU whose second-to-last historical period
\* has avg 0 has the fallback monthly_change_pct 0.
ZeroPreviousAverageFallsBack ==
    call.fn = "get_price_comparison_matrix" =>
        /\ result.kind = "return"
        /\ \A i \in DOMAIN result.value :
               LET series == SeriesOf(result.value[i].gpu_id)
               IN  (Len(series) >= 2 /\ KthLatest(series, 2).avg = 0) =>
                       result.value[i].monthly_change_pct = 0

(***************************************************************************)
(* The price columns of a comparison row                                   *)
(***************************************************************************)
\* the sum of the numbers f maps the members of D to
RECURSIVE SumOver(_, _)
SumOver(D, f) ==
    IF D = {} THEN 0
    ELSE LET x == CHOOSE y \in D : TRUE
         IN  f[x] + SumOver(D \ {x}, f)

\* C17: in every comparison row, cheapest_price is the minimum and
\* most_expensive the maximum of price_per_gpu_hr over the offerings of the
\* GPU, cheapest_provider is a provider that offers it at cheapest_price,
\* num_providers is the number of offerings and avg_price is the mean of
\* the offering prices rounded to two decimals; so cheapest_price <=
\* most_expensive.
RowPriceColumnsExact ==
    MatrixReturned =>
        \A i \in DOMAIN result.value :
            LET row == result.value[i]
                g == row.gpu_id
                price == [p \in Listing(g) |-> CLOUD_PRICING[p].gpus[g].price_per_gpu_hr]
            IN  /\ Listing(g) # {}
                /\ row.cheapest_price = MinOf(PricesOf(g))
                /\ row.most_expensive = MaxOf(PricesOf(g))
                /\ row.cheapest_provider \in Listing(g)
                /\ price[row.cheapest_provider] = row.cheapest_price
                /\ row.num_providers = Cardinality(Listing(g))
                /\ row.avg_price = RoundDiv(SumOver(Listing(g), price), Cardinality(Listing(g)))
                /\ row.cheapest_price <= row.most_expensive

\* a row of a GPU that the first provider offers at 2.00 and the second at
\* 1.50: cheapest 1.50 at the second provider, most expensive 2.00, mean 1.75
RowOfTwoDifferentPrices ==
    /\ MatrixReturned
    /\ \E i \in DOMAIN result.value :
           LET row == result.value[i]
           IN  /\ row.num_providers = 2
               /\ row.cheapest_provider = ProviderOrder[2]
               /\ row.cheapest_price = 150
               /\ row.most_expensive = 200
               /\ row.avg_price = 175

(***************************************************************************)
(* Properties of get_utilization_summary                                   *)
(***************************************************************************)
\* the providers whose utilization report lists gpu_id
Reporting(gpu_id) ==
    {p \in UtilizationProviderSet : gpu_id \in DOMAIN UTILIZATION_METRICS[p]}

\* C18: for every GPU of the utilization table, get_utilization_summary
\* reports count = the number of providers that list the GPU, a providers
\* map with exactly those providers, and avg_utilization / avg_efficiency =
\* the sum of their avg_utilization_pct / efficiency_score divided by count,
\* rounded to one decimal; a GPU that no provider lists has no entry.
UtilizationSummaryExact ==
    call.fn = "get_utilization_summary" =>
        /\ result.kind = "return"
        /\ DOMAIN result.value = {g \in GpuSet : Reporting(g) # {}}
        /\ \A g \in DOMAIN result.value :
               LET e == result.value[g]
                   util == [p \in Reporting(g) |-> UTILIZATION_METRICS[p][g].avg_utilization_pct]
                   eff == [p \in Reporting(g) |-> UTILIZATION_METRICS[p][g].efficiency_score]
               IN  /\ e.count = Cardinality(Reporting(g))
                   /\ DOMAIN e.providers = Reporting(g)
                   /\ \A p \in Reporting(g) : e.providers[p] = UTILIZATION_METRICS[p][g]
                   /\ e.avg_utilization = RoundDiv(SumOver(Reporting(g), util) * 10, e.count)
                   /\ e.avg_efficiency = RoundDiv(SumOver(Reporting(g), eff) * 10, e.count)

\* three providers list one GPU with utilization 78, 55 and 58 (mean 63.67,
\* reported as 63.7) and none lists the other GPU, which has no entry
UtilizationMeanRounded ==
    /\ call.fn = "get_utilization_summary"
    /\ result.kind = "return"
    /\ \E g \in GpuSet :
           /\ DOMAIN result.value = {g}
           /\ result.value[g].count = 3
           /\ {UTILIZATION_METRICS[p][g].avg_utilization_pct : p \in Reporting(g)} = {78, 55, 58}
           /\ result.value[g].avg_utilization = 637
           /\ result.value[g].avg_efficiency = 680

(***************************************************************************)
(* Properties of get_sustainability_summary                                *)
(***************************************************************************)
\* C19: for every provider of the sustainability table, best_region is a
\* region with the maximum sustainability_score and worst_region one with
\* the minimum, and among regions that tie on the score the one that comes
\* first in the provider's region table is chosen.
BestAndWorstRegionFirstExtreme ==
    call.fn = "get_sustainability_summary" =>
        /\ result.kind = "return"
        /\ DOMAIN result.value.providers = SustainabilityProviderSet
        /\ \A p \in SustainabilityProviderSet :
               LET r == SUSTAINABILITY_INDEX[p]
                   e == result.value.providers[p]
               IN  /\ \E i \in DOMAIN r :
                          /\ r[i].region = e.best_region
                          /\ \A j \in DOMAIN r :
                                 r[j].sustainability_score <= r[i].sustainability_score
                          /\ \A j \in 1..(i - 1) :
                                 r[j].sustainability_score < r[i].sustainability_score
                   /\ \E i \in DOMAIN r :
                          /\ r[i].region = e.worst_region
                          /\ \A j \in DOMAIN r :
                                 r[j].sustainability_score >= r[i].sustainability_score
                          /\ \A j \in 1..(i - 1) :
                                 r[j].sustainability_score > r[i].sustainability_score

\* a provider whose regions score 60, 85, 85 in storage order, the tied
\* regions in descending order of their names: the best region is the
\* second and the worst the first
RegionTiesGoToFirstStored ==
    /\ call.fn = "get_sustainability_summary"
    /\ result.kind = "return"
    /\ \E p \in SustainabilityProviderSet :
           LET r == SUSTAINABILITY_INDEX[p]
               e == result.value.providers[p]
           IN  /\ Len(r) = 3
               /\ r[1].sustainability_score = 60
               /\ r[2].sustainability_score = 85
               /\ r[3].sustainability_score = 85
               /\ r[2].region > r[3].region
               /\ e.best_region = r[2].region
               /\ e.worst_region = r[1].region

(***************************************************************************)
(* Properties of get_workload_recommendations                              *)
(***************************************************************************)
\* C20: for every workload, get_workload_recommendations returns the
\* workload's original fields plus current_prices, which has an entry for
\* exactly the recommended GPUs with at least one offering (the others are
\* skipped without error); an entry's cheapest and provider are those of the
\* first element of get_cheapest_by_gpu for the GPU, and monthly_1gpu is
\* cheapest * 730 rounded to two decimals.
WorkloadsCarryCurrentPrices ==
    call.fn = "get_workload_recommendations" =>
        /\ result.kind = "return"
        /\ DOMAIN result.value = DOMAIN WORKLOAD_RECOMMENDATIONS
        /\ \A w \in DOMAIN WORKLOAD_RECOMMENDATIONS :
               LET rec == WORKLOAD_RECOMMENDATIONS[w]
                   e == result.value[w]
               IN  /\ DOMAIN e = (DOMAIN rec) \cup {"current_prices"}
                   /\ \A k \in DOMAIN rec : e[k] = rec[k]
                   /\ DOMAIN e.current_prices =
                          {rec.recommended[i] : i \in {j \in DOMAIN rec.recommended :
                              Listing(rec.recommended[j]) # {}}}
                   /\ \A g \in DOMAIN e.current_prices :
                          LET first == get_cheapest_by_gpu(g)[1]
                              c == e.current_prices[g]
                          IN  /\ c.cheapest = first.price_per_gpu_hr
                              /\ c.provider = first.provider
                              /\ c.cheapest = MinOf(PricesOf(g))
                              /\ c.monthly_1gpu = c.cheapest * 730

\* a workload that recommends an offered GPU and one nobody offers: it has
\* one current price, 1.50 at the second provider, 1095.00 a month
WorkloadSkipsUnofferedGpu ==
    /\ call.fn = "get_workload_recommendations"
    /\ result.kind = "return"
    /\ \E w \in DOMAIN WORKLOAD_RECOMMENDATIONS :
           LET rec == WORKLOAD_RECOMMENDATIONS[w]
               e == result.value[w]
           IN  /\ Len(rec.recommended) = 2
               /\ Cardinality(DOMAIN e.current_prices) = 1
               /\ \E g \in DOMAIN e.current_prices :
                      /\ Cardinality(Listing(g)) = 2
                      /\ e.current_prices[g].cheapest = 150
                      /\ e.current_prices[g].provider = ProviderOrder[2]
                      /\ e.current_prices[g].monthly_1gpu = 109500

(***************************************************************************)
(* Properties of the analysis cache                                        *)
(***************************************************************************)
\* this step is a call of an analysis function by process p
Begins(p) == proc[p].pc \in {"idle", "done"} /\ proc'[p] # proc[p]

\* process p has just been given a stored text by an analysis function
\* called with use_cache=True
ServedFromCache(p) ==
    /\ proc[p].pc = "done"
    /\ proc[p].use_cache
    /\ ~proc[p].called_llm
    /\ proc[p].ret.kind = "return"

\* C21: an analysis function called with use_cache=True returns a stored
\* section text only if the text was computed less than 3600 seconds before
\* the call, whatever other sections were written in between.
CacheServesOnlyFreshText ==
    [][\A p \in DOMAIN proc :
          (Begins(p) /\ ServedFromCache(p)') =>
              now' - proc'[p].ret.value.at < TTL]_vars

\* process p has come to the end of an analysis function during which the
\* request to the text-generation service failed
EndedAfterFailedRequest(p) ==
    /\ proc[p].pc = "done"
    /\ proc[p].called_llm
    /\ proc[p].result.kind = "error"

\* C22: when the request to the text-generation service fails during an
\* analysis function, the function does not raise and the text it gives is
\* the last cached text of the section or a static placeholder.
FailedRequestShowsCachedTextOrPlaceholder ==
    \A p \in DOMAIN proc :
        EndedAfterFailedRequest(p) =>
            /\ proc[p].ret.kind = "return"
            /\ proc[p].ret.value.kind \in {"analysis", "placeholder"}

\* the section keys the cache file holds
StoredSections == DOMAIN cache_file \ {"timestamp"}

\* C28: a failure result of the text-generation call is never stored in the
\* analysis cache, so no later use_cache=True call returns it and no good
\* text is overwritten by it.
CacheHoldsNoFailure ==
    \A s \in StoredSections : cache_file[s].kind # "error"

\* C29: a use_cache=True call that finds its section in the unexpired cache
\* returns the stored text, asks nothing of the service and leaves the cache
\* file as it is; a use_cache=False call always asks the service and leaves
\* in the cache its new result together with every other unexpired section.
CachedCallReadsOnlyFreshCallAsks ==
    [][\A p \in DOMAIN proc :
          /\ (Begins(p) /\ proc'[p].use_cache
                  /\ proc'[p].fn \in DOMAIN load_cache) =>
                 /\ proc'[p].pc = "done"
                 /\ proc'[p].ret = Return(cache_file[proc'[p].fn])
                 /\ ~proc'[p].called_llm
                 /\ cache_file' = cache_file
          /\ (proc[p].pc # "done" /\ proc'[p].pc = "done" /\ ~proc'[p].use_cache) =>
                 /\ proc'[p].called_llm
                 /\ proc'[p].ret = Return(proc[p].result)
                 /\ proc'[p].fn \in DOMAIN cache_file'
                 /\ cache_file'[proc'[p].fn] = proc[p].result
                 /\ \A s \in DOMAIN load_cache \ {"timestamp", proc'[p].fn} :
                        s \in DOMAIN cache_file' /\ cache_file'[s] = cache_file[s]]_vars

\* C24: when no GPU has any offering, so that generate_market_summary fails,
\* the /api/summary route and the analysis functions that build the market
\* context still end with a response and not with an exception.
NoOfferingStillAnswered ==
    CLOUD_PRICING = NoOfferPricing =>
        /\ call.fn = "GET /api/summary" => result.kind = "return"
        /\ \A p \in DOMAIN proc : proc[p].pc = "done" => proc[p].ret.kind = "return"

(***************************************************************************)
(* Two writers of the analysis cache                                       *)
(***************************************************************************)
\* process p has generated and saved a new text of its section
SavedNew(p) ==
    /\ proc[p].pc = "done"
    /\ proc[p].called_llm
    /\ proc[p].ret = Return(proc[p].result)

\* C25: the cache update is a read and a later write with no lock between:
\* when a process saves its section from a cache it loaded before another
\* process saved a different new section, the file afterwards holds the
\* saver's section and not the other process's.
SecondSaveDropsFirst ==
    [][\A p, q \in DOMAIN proc :
          (/\ p # q
           /\ SavedNew(p)
           /\ proc[q].pc = "save" /\ proc'[q].pc = "done"
           /\ proc[q].fn # proc[p].fn
           /\ proc[p].fn \notin DOMAIN proc[q].cache) =>
              /\ proc[q].fn \in DOMAIN cache_file'
              /\ proc[p].fn \notin DOMAIN cache_file']_vars

\* both processes have generated and saved different sections, and the file
\* holds only the server's
OneOfTwoNewSectionsLost ==
    /\ SavedNew("terminal") /\ SavedNew("server")
    /\ proc["terminal"].fn # proc["server"].fn
    /\ proc["server"].fn \in DOMAIN cache_file
    /\ proc["terminal"].fn \notin DOMAIN cache_file

(***************************************************************************)
(* Properties of the terminal dashboard                                    *)
(***************************************************************************)
\* the letters in brackets of the startup banner, each with the action its
\* word names
BannerActions ==
    [letter \in {"r", "a", "s", "i", "n", "h", "q"} |->
        CASE letter = "r" -> "print_full_dashboard"
          [] letter = "a" -> "get_all_analyses"
          [] letter = "s" -> "render_spot_market"
          [] letter = "i" -> "render_inference_economics"
          [] letter = "n" -> "render_news_feed"
          [] letter = "h" -> "help"
          [] letter = "q" -> "break"]

\* C26: typing the letter the startup banner shows in brackets runs the
\* action the banner names for it: r refresh, a AI analysis, s spot,
\* i inference, n news, h help, q quit.
BannerLetterRunsItsAction ==
    call.arg \in DOMAIN BannerActions => call.fn = BannerActions[call.arg]

\* C27: render_provider_comparison reads of an offering only fields that
\* get_cheapest_by_gpu produces, so it completes without a missing-field
\* error for every GPU, those with offerings included.
ProviderComparisonCompletes ==
    call.fn = "render_provider_comparison" => result.kind = "return"

(***************************************************************************)
(* Properties of generate_daily_news                                       *)
(***************************************************************************)
\* this step is a call of generate_daily_news
NewsCall == proc'["server"] # proc["server"]

\* a news cache file holds a list of at least five items, each with the six
\* required keys
WellFormedNewsFile(file) ==
    /\ Len(file.news) >= 5
    /\ \A i \in 1..Len(file.news) :
           {"date", "source", "headline", "category", "sentiment", "impact"}
               \subseteq DOMAIN file.news[i]

\* C23: generate_daily_news returns the cached list without asking the
\* service exactly when the news cache holds a non-empty list dated today, so
\* never a list cached on an earlier date; and the news cache is only ever
\* written with a list of at least five items that each carry the six
\* required keys.
NewsCacheServedOnlyToday ==
    [][/\ NewsCall =>
            ((proc'["server"].ret.kind = "return" /\ ~proc'["server"].called_llm)
                <=> (/\ news_cache_file # <<>>
                     /\ news_cache_file.date = Today
                     /\ Len(news_cache_file.news) > 0))
       /\ (NewsCall /\ ~proc'["server"].called_llm /\ proc'["server"].ret.kind = "return") =>
            /\ proc'["server"].ret.value = news_cache_file.news
            /\ news_cache_file' = news_cache_file
       /\ news_cache_file' # news_cache_file => WellFormedNewsFile(news_cache_file')]_vars

\* the cached list of today has been returned
TodaysNewsServedFromCache ==
    /\ proc["server"].pc = "done"
    /\ ~proc["server"].called_llm
    /\ news_cache_file # <<>>
    /\ news_cache_file.date = Today
    /\ now > 0
    /\ proc["server"].ret = Return(news_cache_file.news)

\* the reply of the service is of no use: an error, no JSON, fewer than five
\* items, or an item without one of the required keys
Unusable(raw) ==
    \/ raw.text \in {"[LLM Error]", "not json"}
    \/ Len(raw.array) < 5
    \/ \E i \in 1..Len(raw.array) : "impact" \notin DOMAIN raw.array[i]

\* the days from date a to date b, counted one day at a time
RECURSIVE DaysBetween(_, _)
DaysBetween(a, b) ==
    IF a = b THEN 0
    ELSE LET next == IF a[3] < DaysInMonth(a[1], a[2]) THEN <<a[1], a[2], a[3] + 1>>
                     ELSE IF a[2] < 12 THEN <<a[1], a[2] + 1, 1>>
                     ELSE <<a[1] + 1, 1, 1>>
         IN  1 + DaysBetween(next, b)

\* C30: when the reply of the service is unusable, generate_daily_news
\* returns the static list with every date moved by the same number of days,
\* the latest item dated today and the gaps between items kept; it writes
\* nothing to the news cache and leaves NEWS_FEED as it is.
UnusableReplyFallsBackToShiftedFeed ==
    [][(NewsCall /\ proc'["server"].called_llm /\ Unusable(proc'["server"].result)) =>
          /\ proc'["server"].ret.kind = "return"
          /\ LET shifted == proc'["server"].ret.value
             IN  /\ Len(shifted) = Len(NEWS_FEED)
                 /\ \E i \in 1..Len(shifted) : shifted[i].date = Today
                 /\ \A i \in 1..Len(shifted) : ~DateLess(Today, shifted[i].date)
                 /\ \A i \in 1..Len(shifted) :
                        /\ shifted[i].headline = NEWS_FEED[i].headline
                        /\ DaysBetween(NEWS_FEED[i].date, shifted[i].date)
                               = DaysBetween(NEWS_FEED[1].date, shifted[1].date)
          /\ news_cache_file' = news_cache_file
          /\ NEWS_FEED' = NEWS_FEED]_vars

\* the static list has been returned moved into March
FallbackCrossesMonthEnd ==
    /\ proc["server"].pc = "done"
    /\ proc["server"].called_llm
    /\ proc["server"].result.text = "not json"
    /\ proc["server"].ret.kind = "return"
    /\ proc["server"].ret.value[1].date = <<2026, 3, 1>>
    /\ proc["server"].ret.value[4].date = <<2026, 2, 7>>

====
